---- MODULE Spec2Model ----
(***************************************************************************)
(* tinyvm_min.cpp: a four-opcode stack VM (run_bytecode) and its assembler *)
(* (assemble_lines), dispatched by main.                                   *)
(*                                                                         *)
(* Bytes are naturals 0..255.  A C++ `char` is modelled with the signed    *)
(* representation of g++ on x86 (-128..127); the casts of the source are   *)
(* modelled as operators.  Standard input is a raw byte stream in which    *)
(* byte 10 ends a line; std::getline is modelled on that stream.           *)
(***************************************************************************)
EXTENDS Integers, Sequences, FiniteSets, TLC

VARIABLES
    pc,        \* position of the process: "main", "loop", "dispatch", "asm", "exit"
    cmd,       \* argv[1]
    tbc,       \* contents of the bytecode file
    src,       \* contents of the source file, as its sequence of lines
    bc,        \* run_bytecode: the bytecode being executed
    ip,        \* run_bytecode: instruction pointer
    op,        \* run_bytecode: the opcode fetched by the current iteration
    stack,     \* run_bytecode: the stack
    stdin,     \* bytes of standard input not yet extracted
    cout,      \* standard output: [buf: written, not flushed; vis: flushed]
    status,    \* exit status of the process, NoStatus until it returns
    lines,     \* assemble_lines: the argument
    i,         \* assemble_lines: loop index (0-based, as in the source)
    code,      \* assemble_lines: the output vector
    err,       \* the exception thrown by assemble_lines, NoErr when none
    \* history variables (not program state)
    input0,    \* standard input as it was when the process started
    fetched,   \* positions of bc fetched so far, in order
    readVals,  \* values pushed by the READs executed so far, in order
    cause,     \* which return statement ended run_bytecode
    \* the environment of the process
    env,       \* [argc; canRead: the file to read opens; canWrite: the output file opens]
    outExists  \* whether the bytecode file exists

vars == <<pc, cmd, tbc, src, bc, ip, op, stack, stdin, cout, status,
          lines, i, code, err, input0, fetched, readVals, cause, env, outExists>>

vmVars == <<bc, ip, op, stack, stdin, cout, fetched, readVals, cause>>
asmVars == <<lines, i, code, err>>

----------------------------------------------------------------------------
(* Bounds of the model *)

MaxCode == 4      \* longest bytecode file
MaxInput == 3     \* longest standard input, in bytes
MaxLines == 4     \* longest source file, in lines
MaxProgram == 3   \* longest source file that is assembled and then run
MaxRunInput == 2  \* longest standard input of the run of an assembled file

----------------------------------------------------------------------------
(* Opcodes and the mnemonic table *)

OP_READ == 1
OP_PRINT == 2
OP_ADD == 3
OP_HALT == 255

NoStatus == -1
NoOp == -1
NoErr == [line |-> 0, text |-> <<>>]

\* byte values a bytecode file of the model may hold: the four opcodes and
\* a byte that is no opcode (0x99)
CodeBytes == {OP_READ, OP_PRINT, OP_ADD, OP_HALT, 153}

\* byte values standard input of the model may hold: newline, 'A', 200, 100
NL == 10
InputBytes == {NL, 65, 200, 100}

SeqsUpTo(S, n) == UNION {[1..k -> S] : k \in 0..n}

----------------------------------------------------------------------------
(* Casts and masks *)

\* the value of a char holding raw byte b (signed char)
CharOfByte(b) == IF b >= 128 THEN b - 256 ELSE b

\* static_cast<unsigned char>(c)
UnsignedChar(c) == c % 256

\* static_cast<char>(n) for an int n in 0..255
CharOfInt(n) == IF n % 256 >= 128 THEN (n % 256) - 256 ELSE n % 256

\* no mask at all
Mask8None(x) == x

\* x & 0xFF on a two's complement int
Mask8(x) == x % 256

----------------------------------------------------------------------------
(* Standard streams *)

\* index of the first NL of s, 0 when there is none
FirstNL(s) ==
    IF \E k \in 1..Len(s) : s[k] = NL
    THEN CHOOSE k \in 1..Len(s) : s[k] = NL /\ \A j \in 1..(k-1) : s[j] # NL
    ELSE 0

\* a read of one character instead of one line
GetChar(in) ==
    IF in = <<>>
    THEN [ok |-> FALSE, s |-> <<>>, rest |-> <<>>]
    ELSE [ok |-> TRUE,
          s |-> IF in[1] = NL THEN <<>> ELSE <<CharOfByte(in[1])>>,
          rest |-> SubSeq(in, 2, Len(in))]

\* std::getline(cin, s): ok is the stream's state after the call, s the line
\* extracted (without its delimiter), rest what remains to be extracted.
\* Extracting no character at end of input sets failbit.
GetLine(in) ==
    IF in = <<>>
    THEN [ok |-> FALSE, s |-> <<>>, rest |-> <<>>]
    ELSE LET k == FirstNL(in) IN
         IF k = 0
         THEN [ok |-> TRUE,
               s |-> [j \in 1..Len(in) |-> CharOfByte(in[j])],
               rest |-> <<>>]
         ELSE [ok |-> TRUE,
               s |-> [j \in 1..(k-1) |-> CharOfByte(in[j])],
               rest |-> SubSeq(in, k+1, Len(in))]

\* a read that reports end of input as EOF (-1), as getchar does
ReadByteEOF(in) ==
    LET g == GetLine(in) IN
    IF ~g.ok THEN [b |-> -1, rest |-> g.rest]
    ELSE IF g.s = <<>> THEN [b |-> 0, rest |-> g.rest]
    ELSE [b |-> UnsignedChar(g.s[1]), rest |-> g.rest]

\* the lambda read_byte_from_stdin: the int returned and the input left
ReadByteFromStdin(in) ==
    LET g == GetLine(in) IN
    IF ~g.ok THEN [b |-> 0, rest |-> g.rest]
    ELSE IF g.s = <<>> THEN [b |-> 0, rest |-> g.rest]
    ELSE [b |-> UnsignedChar(g.s[1]), rest |-> g.rest]

\* cout.put(c): the raw byte of c goes to the stream buffer
\* an output of the value as decimal text (cout << int(b)) instead of one byte
PutDecimal(o, c) ==
    LET v == UnsignedChar(c)
        digits == IF v >= 100 THEN <<v \div 100, (v \div 10) % 10, v % 10>>
                  ELSE IF v >= 10 THEN <<v \div 10, v % 10>>
                  ELSE <<v>>
    IN [o EXCEPT !.buf = @ \o [k \in 1..Len(digits) |-> 48 + digits[k]]]

Put(o, c) == [o EXCEPT !.buf = Append(@, UnsignedChar(c))]

\* no flush: the byte stays in the buffer
FlushNone(o) == o

\* cout.flush(): the buffer becomes visible
Flush(o) == [buf |-> <<>>, vis |-> o.vis \o o.buf]

----------------------------------------------------------------------------
(* run_bytecode *)

Pop(s) == SubSeq(s, 1, Len(s) - 1)
Back(s) == s[Len(s)]

\* a run_bytecode that reports every fatal condition with the same status
ReturnConflated(n, why) ==
    /\ pc' = "exit"
    /\ status' = IF n = 3 THEN 2 ELSE n
    /\ cause' = why

\* return n from run_bytecode, which main returns as the exit status
Return(n, why) ==
    /\ pc' = "exit"
    /\ status' = n
    /\ cause' = why

\* a fetch that does not advance ip
FetchNoAdvance ==
    /\ pc = "loop"
    /\ ip < Len(bc)
    /\ op' = bc[ip + 1]
    /\ ip' = ip
    /\ fetched' = Append(fetched, ip)
    /\ pc' = "dispatch"
    /\ UNCHANGED <<cmd, tbc, src, bc, stack, stdin, cout, status, readVals, cause>>
    /\ UNCHANGED asmVars
    /\ UNCHANGED <<input0, env, outExists>>

\* while (ip < bc.size()) { uint8_t op = bc[ip++];
Fetch ==
    /\ pc = "loop"
    /\ ip < Len(bc)
    /\ op' = bc[ip + 1]
    /\ ip' = ip + 1
    /\ fetched' = Append(fetched, ip)
    /\ pc' = "dispatch"
    /\ UNCHANGED <<cmd, tbc, src, bc, stack, stdin, cout, status, readVals, cause>>
    /\ UNCHANGED asmVars
    /\ UNCHANGED <<input0, env, outExists>>

\* a loop that treats running off the end without HALT as an error
LoopExitStrict ==
    /\ pc = "loop"
    /\ ~(ip < Len(bc))
    /\ Return(1, "end")
    /\ UNCHANGED <<cmd, tbc, src, bc, ip, op, stack, stdin, cout, fetched, readVals>>
    /\ UNCHANGED asmVars
    /\ UNCHANGED <<input0, env, outExists>>

\* the loop condition fails: return 0 after the loop
LoopExit ==
    /\ pc = "loop"
    /\ ~(ip < Len(bc))
    /\ Return(0, "end")
    /\ UNCHANGED <<cmd, tbc, src, bc, ip, op, stack, stdin, cout, fetched, readVals>>
    /\ UNCHANGED asmVars
    /\ UNCHANGED <<input0, env, outExists>>

\* case OP_READ
OpRead ==
    /\ pc = "dispatch"
    /\ op = OP_READ
    /\ LET r == ReadByteFromStdin(stdin) IN
        /\ stack' = Append(stack, Mask8(r.b))
        /\ stdin' = r.rest
        /\ readVals' = Append(readVals, Mask8(r.b))
    /\ pc' = "loop"
    /\ UNCHANGED <<cmd, tbc, src, bc, ip, op, cout, status, fetched, cause>>
    /\ UNCHANGED asmVars
    /\ UNCHANGED <<input0, env, outExists>>

\* a PRINT that writes the top of the stack and leaves it there
OpPrintPeek ==
    /\ pc = "dispatch"
    /\ op = OP_PRINT
    /\ IF stack = <<>>
       THEN /\ Return(2, "print")
            /\ UNCHANGED <<stack, cout>>
       ELSE /\ stack' = stack
            /\ cout' = Flush(Put(cout, CharOfInt(Mask8(Back(stack)))))
            /\ pc' = "loop"
            /\ UNCHANGED <<status, cause>>
    /\ UNCHANGED <<cmd, tbc, src, bc, ip, op, stdin, fetched, readVals>>
    /\ UNCHANGED asmVars
    /\ UNCHANGED <<input0, env, outExists>>

\* case OP_PRINT
OpPrint ==
    /\ pc = "dispatch"
    /\ op = OP_PRINT
    /\ IF stack = <<>>
       THEN /\ Return(2, "print")
            /\ UNCHANGED <<stack, cout>>
       ELSE /\ stack' = Pop(stack)
            /\ cout' = Flush(Put(cout, CharOfInt(Mask8(Back(stack)))))
            /\ pc' = "loop"
            /\ UNCHANGED <<status, cause>>
    /\ UNCHANGED <<cmd, tbc, src, bc, ip, op, stdin, fetched, readVals>>
    /\ UNCHANGED asmVars
    /\ UNCHANGED <<input0, env, outExists>>

\* case OP_ADD
OpAdd ==
    /\ pc = "dispatch"
    /\ op = OP_ADD
    /\ IF Len(stack) < 2
       THEN /\ Return(2, "add")
            /\ UNCHANGED stack
       ELSE /\ LET a == Back(stack)
                   b == Back(Pop(stack))
               IN stack' = Append(Pop(Pop(stack)), Mask8(a + b))
            /\ pc' = "loop"
            /\ UNCHANGED <<status, cause>>
    /\ UNCHANGED <<cmd, tbc, src, bc, ip, op, stdin, cout, fetched, readVals>>
    /\ UNCHANGED asmVars
    /\ UNCHANGED <<input0, env, outExists>>

\* a HALT that does not return: the loop goes on
OpHaltContinue ==
    /\ pc = "dispatch"
    /\ op = OP_HALT
    /\ pc' = "loop"
    /\ UNCHANGED <<cmd, tbc, src, bc, ip, op, stack, stdin, cout, status, fetched,
                   readVals, cause>>
    /\ UNCHANGED asmVars
    /\ UNCHANGED <<input0, env, outExists>>

\* case OP_HALT
OpHalt ==
    /\ pc = "dispatch"
    /\ op = OP_HALT
    /\ Return(0, "halt")
    /\ UNCHANGED <<cmd, tbc, src, bc, ip, op, stack, stdin, cout, fetched, readVals>>
    /\ UNCHANGED asmVars
    /\ UNCHANGED <<input0, env, outExists>>

\* a default case that reports the byte and then skips it
OpDefaultSkip ==
    /\ pc = "dispatch"
    /\ op \notin {OP_READ, OP_PRINT, OP_ADD, OP_HALT}
    /\ pc' = "loop"
    /\ UNCHANGED <<cmd, tbc, src, bc, ip, op, stack, stdin, cout, status, fetched,
                   readVals, cause>>
    /\ UNCHANGED asmVars
    /\ UNCHANGED <<input0, env, outExists>>

\* default
OpDefault ==
    /\ pc = "dispatch"
    /\ op \notin {OP_READ, OP_PRINT, OP_ADD, OP_HALT}
    /\ Return(3, "unknown")
    /\ UNCHANGED <<cmd, tbc, src, bc, ip, op, stack, stdin, cout, fetched, readVals>>
    /\ UNCHANGED asmVars
    /\ UNCHANGED <<input0, env, outExists>>

\* run_bytecode as a function of the bytecode and of standard input: the
\* loop from ip = p with stack st, input left in and output out
RECURSIVE RunFrom(_, _, _, _, _)
RunFrom(b, p, st, in, out) ==
    IF ~(p < Len(b))
    THEN [status |-> 0, out |-> out, rest |-> in]
    ELSE LET o == b[p + 1] IN
         IF o = OP_READ
         THEN LET r == ReadByteFromStdin(in) IN
              RunFrom(b, p + 1, Append(st, Mask8(r.b)), r.rest, out)
         ELSE IF o = OP_PRINT
         THEN IF st = <<>>
              THEN [status |-> 2, out |-> out, rest |-> in]
              ELSE RunFrom(b, p + 1, Pop(st), in,
                           Flush(Put(out, CharOfInt(Mask8(Back(st))))))
         ELSE IF o = OP_ADD
         THEN IF Len(st) < 2
              THEN [status |-> 2, out |-> out, rest |-> in]
              ELSE RunFrom(b, p + 1,
                           Append(Pop(Pop(st)), Mask8(Back(st) + Back(Pop(st)))),
                           in, out)
         ELSE IF o = OP_HALT
         THEN [status |-> 0, out |-> out, rest |-> in]
         ELSE [status |-> 3, out |-> out, rest |-> in]

RunBytecode(b, in) == RunFrom(b, 0, <<>>, in, [buf |-> <<>>, vis |-> <<>>])

----------------------------------------------------------------------------
(* assemble_lines *)

\* a whitespace set without the tab
WS_NoTab == {" ", "\r", "\n"}

\* a std::string is a sequence of characters, each a one-character string
WS == {" ", "\t", "\r", "\n"}

\* a table in which PRINT and ADD have each other's opcode
MNEM_Swapped ==
    {[name |-> <<"R", "E", "A", "D">>,      opcode |-> OP_READ],
     [name |-> <<"P", "R", "I", "N", "T">>, opcode |-> OP_ADD],
     [name |-> <<"A", "D", "D">>,           opcode |-> OP_PRINT],
     [name |-> <<"H", "A", "L", "T">>,      opcode |-> OP_HALT]}

\* static const unordered_map<string,uint8_t> MNEM
MNEM == {[name |-> <<"R", "E", "A", "D">>,      opcode |-> OP_READ],
         [name |-> <<"P", "R", "I", "N", "T">>, opcode |-> OP_PRINT],
         [name |-> <<"A", "D", "D">>,           opcode |-> OP_ADD],
         [name |-> <<"H", "A", "L", "T">>,      opcode |-> OP_HALT]}

\* a lookup of the first word of the line instead of the whole line
MnemFindFirstWord(line) ==
    {e \in MNEM : /\ Len(line) >= Len(e.name)
                  /\ SubSeq(line, 1, Len(e.name)) = e.name
                  /\ (Len(line) > Len(e.name) => line[Len(e.name) + 1] \in WS)}

\* MNEM.find(line): the set of entries found (empty when it == MNEM.end())
MnemFind(line) == {e \in MNEM : e.name = line}

\* raw.find_first_not_of(" \t\r\n"): a 1-based index, 0 for npos
FindFirstNotOf(raw) ==
    IF \E k \in 1..Len(raw) : raw[k] \notin WS
    THEN CHOOSE k \in 1..Len(raw) :
            raw[k] \notin WS /\ \A j \in 1..(k-1) : raw[j] \in WS
    ELSE 0

\* raw.find_last_not_of(" \t\r\n"): a 1-based index, 0 for npos
FindLastNotOf(raw) ==
    IF \E k \in 1..Len(raw) : raw[k] \notin WS
    THEN CHOOSE k \in 1..Len(raw) :
            raw[k] \notin WS /\ \A j \in (k+1)..Len(raw) : raw[j] \in WS
    ELSE 0

\* raw.substr(l, r - l + 1), with l and r 1-based
Trimmed(raw) == SubSeq(raw, FindFirstNotOf(raw), FindLastNotOf(raw))

\* the iteration of the for loop is for lines[i] (0-based i)
AsmAt ==
    /\ pc = "asm"
    /\ i < Len(lines)

AsmFrame ==
    /\ UNCHANGED <<cmd, tbc, src, status, lines>>
    /\ UNCHANGED vmVars
    /\ UNCHANGED <<input0, env, outExists>>

\* if (l == string::npos) continue;
AsmBlank ==
    /\ AsmAt
    /\ FindFirstNotOf(lines[i + 1]) = 0
    /\ i' = i + 1
    /\ pc' = "asm"
    /\ UNCHANGED <<code, err>>
    /\ AsmFrame

\* if (line.empty() || line[0] == '#') continue;
AsmComment ==
    /\ AsmAt
    /\ FindFirstNotOf(lines[i + 1]) # 0
    /\ LET line == Trimmed(lines[i + 1]) IN
        line = <<>> \/ line[1] = "#"
    /\ i' = i + 1
    /\ pc' = "asm"
    /\ UNCHANGED <<code, err>>
    /\ AsmFrame

\* code.push_back(it->second);
AsmEmit ==
    /\ AsmAt
    /\ FindFirstNotOf(lines[i + 1]) # 0
    /\ LET line == Trimmed(lines[i + 1]) IN
        /\ ~(line = <<>> \/ line[1] = "#")
        /\ MnemFind(line) # {}
        /\ \E it \in MnemFind(line) : code' = Append(code, it.opcode)
    /\ i' = i + 1
    /\ pc' = "asm"
    /\ UNCHANGED err
    /\ AsmFrame

\* a throw that reports the 0-based index of the line
AsmThrowZeroBased ==
    /\ AsmAt
    /\ FindFirstNotOf(lines[i + 1]) # 0
    /\ LET line == Trimmed(lines[i + 1]) IN
        /\ ~(line = <<>> \/ line[1] = "#")
        /\ MnemFind(line) = {}
        /\ err' = [line |-> i, text |-> line]
    /\ code' = <<>>
    /\ pc' = "catch"
    /\ UNCHANGED i
    /\ AsmFrame

\* if (it == MNEM.end()) throw runtime_error("Linha <i+1>: instrucao invalida: '<line>'")
\* the vector under construction is destroyed by the unwinding
AsmThrow ==
    /\ AsmAt
    /\ FindFirstNotOf(lines[i + 1]) # 0
    /\ LET line == Trimmed(lines[i + 1]) IN
        /\ ~(line = <<>> \/ line[1] = "#")
        /\ MnemFind(line) = {}
        /\ err' = [line |-> i + 1, text |-> line]
    /\ code' = <<>>
    /\ pc' = "catch"
    /\ UNCHANGED i
    /\ AsmFrame

\* the loop ends: return code;
AsmReturn ==
    /\ pc = "asm"
    /\ ~(i < Len(lines))
    /\ pc' = "write"
    /\ UNCHANGED <<i, code, err>>
    /\ AsmFrame

\* assemble_lines as a function of its argument: the loop from index k
\* (0-based) with the output out built so far; ok is FALSE when it throws
RECURSIVE AsmFrom(_, _, _)
AsmFrom(ls, k, out) ==
    IF ~(k < Len(ls))
    THEN [ok |-> TRUE, code |-> out, err |-> NoErr]
    ELSE IF FindFirstNotOf(ls[k + 1]) = 0
    THEN AsmFrom(ls, k + 1, out)
    ELSE LET line == Trimmed(ls[k + 1]) IN
         IF line = <<>> \/ line[1] = "#"
         THEN AsmFrom(ls, k + 1, out)
         ELSE IF MnemFind(line) = {}
         THEN [ok |-> FALSE, code |-> <<>>, err |-> [line |-> k + 1, text |-> line]]
         ELSE AsmFrom(ls, k + 1,
                      Append(out, (CHOOSE it \in MnemFind(line) : TRUE).opcode))

AssembleLines(ls) == AsmFrom(ls, 0, <<>>)

----------------------------------------------------------------------------
(* main *)

\* lines a source file of the model may hold
SourceLines ==
    { <<"R", "E", "A", "D">>,
      <<"P", "R", "I", "N", "T">>,
      <<"A", "D", "D">>,
      <<"H", "A", "L", "T">>,
      <<" ", "A", "D", "D", "\r">>,
      <<>>,
      <<" ", "\t">>,
      <<" ", "#", "A", "D", "D">>,
      <<"F", "O", "O">>,
      <<"r", "e", "a", "d">>,
      <<"R", "E", "A", "D", " ", "#">>,
      <<"R", "E", "A", "D", " ", "P", "R", "I", "N", "T">> }

\* an assemble branch that opens the output file before it assembles
MainAssembleOpensFirst ==
    /\ pc = "main"
    /\ ~(env.argc < 2)
    /\ cmd = "assemble"
    /\ ~(env.argc # 4)
    /\ env.canRead
    /\ lines' = src
    /\ i' = 0
    /\ code' = <<>>
    /\ pc' = "asm"
    /\ tbc' = IF env.canWrite THEN <<>> ELSE tbc
    /\ outExists' = (env.canWrite \/ outExists)
    /\ UNCHANGED <<cmd, src, status, err>>
    /\ UNCHANGED vmVars
    /\ UNCHANGED <<input0, env>>

\* cmd == "assemble": the source file is read line by line and assemble_lines
\* is called on the lines
MainAssemble ==
    /\ pc = "main"
    /\ ~(env.argc < 2)
    /\ cmd = "assemble"
    /\ ~(env.argc # 4)
    /\ env.canRead
    /\ lines' = src
    /\ i' = 0
    /\ code' = <<>>
    /\ pc' = "asm"
    /\ UNCHANGED <<cmd, tbc, src, status, err>>
    /\ UNCHANGED vmVars
    /\ UNCHANGED <<input0, env, outExists>>

\* catch (const exception& e) { cerr << e.what(); return 1; }
MainCatch ==
    /\ pc = "catch"
    /\ status' = 1
    /\ pc' = "exit"
    /\ UNCHANGED <<cmd, tbc, src>>
    /\ UNCHANGED asmVars
    /\ UNCHANGED vmVars
    /\ UNCHANGED <<input0, env, outExists>>

\* bc = assemble_lines(lines) returned: the output file is opened, which
\* creates or truncates it, and written; return 0
MainWrite ==
    /\ pc = "write"
    /\ env.canWrite
    /\ tbc' = code
    /\ outExists' = TRUE
    /\ status' = 0
    /\ pc' = "exit"
    /\ UNCHANGED <<cmd, src>>
    /\ UNCHANGED asmVars
    /\ UNCHANGED vmVars
    /\ UNCHANGED <<input0, env>>

\* if (!fout) { cerr << "Nao consegui escrever ..."; return 1; }
MainWriteFail ==
    /\ pc = "write"
    /\ ~env.canWrite
    /\ status' = 1
    /\ pc' = "exit"
    /\ UNCHANGED <<cmd, tbc, src>>
    /\ UNCHANGED asmVars
    /\ UNCHANGED vmVars
    /\ UNCHANGED <<input0, env, outExists>>

\* argc < 2, a wrong argument count for the command, or an invalid command:
\* the usage message and return 1
MainUsage ==
    /\ pc = "main"
    /\ \/ env.argc < 2
       \/ cmd = "assemble" /\ env.argc # 4
       \/ cmd = "run" /\ env.argc # 3
       \/ cmd \notin {"assemble", "run"}
    /\ status' = 1
    /\ pc' = "exit"
    /\ UNCHANGED <<cmd, tbc, src>>
    /\ UNCHANGED asmVars
    /\ UNCHANGED vmVars
    /\ UNCHANGED <<input0, env, outExists>>

\* if (!fin) { cerr << "Nao consegui abrir ..."; return 1; }
MainOpenFail ==
    /\ pc = "main"
    /\ ~(env.argc < 2)
    /\ \/ cmd = "assemble" /\ ~(env.argc # 4)
       \/ cmd = "run" /\ ~(env.argc # 3)
    /\ ~env.canRead
    /\ status' = 1
    /\ pc' = "exit"
    /\ UNCHANGED <<cmd, tbc, src>>
    /\ UNCHANGED asmVars
    /\ UNCHANGED vmVars
    /\ UNCHANGED <<input0, env, outExists>>

\* cmd == "run": the bytecode file is read whole and run_bytecode is entered
MainRun ==
    /\ pc = "main"
    /\ ~(env.argc < 2)
    /\ cmd = "run"
    /\ ~(env.argc # 3)
    /\ env.canRead
    /\ bc' = tbc
    /\ ip' = 0
    /\ stack' = <<>>
    /\ pc' = "loop"
    /\ UNCHANGED <<cmd, tbc, src, op, stdin, cout, status, fetched, readVals, cause>>
    /\ UNCHANGED asmVars
    /\ UNCHANGED <<input0, env, outExists>>

\* the process is started as `run <file>`: any bytecode file, any input
InitRun ==
    /\ pc = "main"
    /\ cmd = "run"
    /\ tbc \in SeqsUpTo(CodeBytes, MaxCode)
    /\ src = <<>>
    /\ bc = <<>>
    /\ ip = 0
    /\ op = NoOp
    /\ stack = <<>>
    /\ stdin \in SeqsUpTo(InputBytes, MaxInput)
    /\ cout = [buf |-> <<>>, vis |-> <<>>]
    /\ status = NoStatus
    /\ lines = <<>>
    /\ i = 0
    /\ code = <<>>
    /\ err = NoErr
    /\ input0 = stdin
    /\ fetched = <<>>
    /\ readVals = <<>>
    /\ cause = "none"
    /\ env = [argc |-> 3, canRead |-> TRUE, canWrite |-> TRUE]
    /\ outExists = TRUE

\* the process is started as `assemble <source> <output>`: any source file
InitAsm ==
    /\ pc = "main"
    /\ cmd = "assemble"
    /\ tbc = <<>>
    /\ src \in SeqsUpTo(SourceLines, MaxLines)
    /\ bc = <<>>
    /\ ip = 0
    /\ op = NoOp
    /\ stack = <<>>
    /\ stdin = <<>>
    /\ cout = [buf |-> <<>>, vis |-> <<>>]
    /\ status = NoStatus
    /\ lines = <<>>
    /\ i = 0
    /\ code = <<>>
    /\ err = NoErr
    /\ input0 = stdin
    /\ fetched = <<>>
    /\ readVals = <<>>
    /\ cause = "none"
    /\ env = [argc |-> 4, canRead |-> TRUE, canWrite |-> TRUE]
    /\ outExists = TRUE

\* lines of a source file that is assembled and then run
ProgramLines ==
    { <<"R", "E", "A", "D">>,
      <<"P", "R", "I", "N", "T">>,
      <<"A", "D", "D">>,
      <<"H", "A", "L", "T">>,
      <<" ", "A", "D", "D", "\r">>,
      <<>>,
      <<" ", "#", "A", "D", "D">>,
      <<"F", "O", "O">> }

\* the process is started as `assemble <source> <output>`, and the output
\* file, once written, is given to a second process started as `run <output>`;
\* or the process is started as `run` on a file that no assembler wrote
InitPipe ==
    /\ pc = "main"
    /\ cmd \in {"assemble", "run"}
    /\ tbc \in IF cmd = "run" THEN SeqsUpTo(CodeBytes, MaxProgram) ELSE {<<>>}
    /\ src \in IF cmd = "assemble" THEN SeqsUpTo(ProgramLines, MaxProgram) ELSE {<<>>}
    /\ bc = <<>>
    /\ ip = 0
    /\ op = NoOp
    /\ stack = <<>>
    /\ stdin \in IF cmd = "run" THEN SeqsUpTo(InputBytes, MaxRunInput) ELSE {<<>>}
    /\ cout = [buf |-> <<>>, vis |-> <<>>]
    /\ status = NoStatus
    /\ lines = <<>>
    /\ i = 0
    /\ code = <<>>
    /\ err = NoErr
    /\ input0 = stdin
    /\ fetched = <<>>
    /\ readVals = <<>>
    /\ cause = "none"
    /\ env = [argc |-> IF cmd = "run" THEN 3 ELSE 4, canRead |-> TRUE, canWrite |-> TRUE]
    /\ outExists = TRUE

\* after `assemble` has exited 0, a new process is started as `run` on the
\* file it wrote, with some standard input
RunAssembled ==
    /\ pc = "exit"
    /\ cmd = "assemble"
    /\ status = 0
    /\ cmd' = "run"
    /\ pc' = "main"
    /\ status' = NoStatus
    /\ stdin' \in SeqsUpTo(InputBytes, MaxRunInput)
    /\ input0' = stdin'
    /\ env' = [env EXCEPT !.argc = 3]
    /\ UNCHANGED <<tbc, src, bc, ip, op, stack, cout, fetched, readVals, cause>>
    /\ UNCHANGED asmVars
    /\ UNCHANGED outExists

\* bytecode files that may be there before `assemble` starts
OldFiles == {<<>>, <<153>>, <<1, 2>>}

\* the process is started with `assemble` as argv[1]: any argument count,
\* a source file that opens or does not, an output file that is there or
\* not and that opens for writing or does not
InitCmd ==
    /\ pc = "main"
    /\ cmd = "assemble"
    /\ env \in [argc : 2..5, canRead : BOOLEAN, canWrite : BOOLEAN]
    /\ outExists \in BOOLEAN
    /\ tbc \in IF outExists THEN OldFiles ELSE {<<>>}
    /\ src \in IF env.canRead /\ env.argc = 4
               THEN SeqsUpTo(ProgramLines, MaxProgram) ELSE {<<>>}
    /\ bc = <<>>
    /\ ip = 0
    /\ op = NoOp
    /\ stack = <<>>
    /\ stdin = <<>>
    /\ cout = [buf |-> <<>>, vis |-> <<>>]
    /\ status = NoStatus
    /\ lines = <<>>
    /\ i = 0
    /\ code = <<>>
    /\ err = NoErr
    /\ input0 = stdin
    /\ fetched = <<>>
    /\ readVals = <<>>
    /\ cause = "none"

Init == InitRun \/ InitAsm \/ InitCmd

NextRun ==
    \/ MainRun
    \/ Fetch
    \/ LoopExit
    \/ OpRead
    \/ OpPrint
    \/ OpAdd
    \/ OpHalt
    \/ OpDefault

NextAsm ==
    \/ MainAssemble
    \/ AsmBlank
    \/ AsmComment
    \/ AsmEmit
    \/ AsmThrow
    \/ AsmReturn
    \/ MainCatch
    \/ MainWrite

\* the assemble command in any environment
NextCmd == NextAsm \/ MainUsage \/ MainOpenFail \/ MainWriteFail

Next == NextRun \/ NextCmd

Spec == Init /\ [][Next]_vars

\* the two commands on their own
SpecRun == InitRun /\ [][NextRun]_vars
SpecAsm == InitAsm /\ [][NextAsm]_vars

SpecCmd == InitCmd /\ [][NextCmd]_vars

\* assemble, then run the assembled file
\* run_bytecode is one sequential thread: a step that is possible is taken
\* (getline returns on every finite input, at end of file too)
InitRunFair == InitPipe /\ cmd = "run"

SpecRunFair == InitRunFair /\ [][NextRun]_vars /\ WF_vars(NextRun)

NextPipe == NextAsm \/ RunAssembled \/ NextRun
SpecPipe == InitPipe /\ [][NextPipe]_vars

----------------------------------------------------------------------------
(* Properties of run_bytecode *)

Running == cmd = "run" /\ pc \in {"loop", "dispatch"}
Fetched(o) == cmd = "run" /\ pc = "dispatch" /\ op = o
FetchedUnknown == cmd = "run" /\ pc = "dispatch" /\ op \notin {1, 2, 3, 255}
Underflows ==
    \/ Fetched(2) /\ stack = <<>>
    \/ Fetched(3) /\ Len(stack) < 2
AtEnd == cmd = "run" /\ pc = "loop" /\ ip = Len(bc)

\* a step that ends run_bytecode
Ends == Running /\ pc' = "exit"

\* C1: run_bytecode ends with exactly one of the statuses 0, 2, 3: 3 iff it
\* stopped on a fetched byte that is no opcode, 2 iff it stopped on a PRINT
\* fetched with an empty stack or an ADD fetched with fewer than two
\* elements, 0 iff it stopped on a fetched HALT or because ip reached the
\* end of the bytecode; each of these conditions ends it, and there is no
\* status before it has ended.
C1_StatusStep ==
    /\ Ends => status' \in {0, 2, 3}
    /\ Ends => (status' = 3 <=> FetchedUnknown)
    /\ Ends => (status' = 2 <=> Underflows)
    /\ Ends => (status' = 0 <=> (Fetched(255) \/ AtEnd))
    /\ (FetchedUnknown \/ Underflows \/ Fetched(255) \/ AtEnd) => pc' = "exit"
    /\ Running /\ pc' # "exit" => status' = NoStatus
    /\ pc = "exit" => status' = status

C1_Status ==
    /\ [](cmd = "run" => (status \in {0, 2, 3} <=> pc = "exit"))
    /\ [](cmd = "run" => status \in {NoStatus, 0, 2, 3})
    /\ [][C1_StatusStep]_vars

\* run_bytecode has ended with status 2 on an ADD fetched with one element
C1_Witness ==
    /\ cmd = "run" /\ pc = "exit" /\ status = 2
    /\ op = 3 /\ Len(stack) = 1

\* C2: when ip reaches the end of the bytecode, run_bytecode ends with
\* status 0; the empty bytecode ends with status 0, no output byte written
\* and no input consumed.
C2_EndStep == AtEnd => pc' = "exit" /\ status' = 0 /\ UNCHANGED <<cout, stdin, stack>>

C2_FallOffEnd ==
    /\ [][C2_EndStep]_vars
    /\ [](cmd = "run" /\ tbc = <<>> /\ pc = "exit" =>
            /\ status = 0
            /\ cout = [buf |-> <<>>, vis |-> <<>>]
            /\ stdin = input0
            /\ fetched = <<>>)

\* a bytecode without HALT has run off its end after a READ and a PRINT
C2_Witness ==
    /\ cmd = "run" /\ pc = "exit" /\ status = 0
    /\ bc = <<1, 2>> /\ ip = 2 /\ cout.vis # <<>>


\* the positions 0 .. n-1 in order
Positions(n) == [k \in 1..n |-> k - 1]

\* what an execution of bytecode b on the input of this process gives
Outcome(b) == RunBytecode(b, input0)

\* what this process has given
Result == [status |-> status, out |-> cout, rest |-> stdin]

\* bc cut after the last fetched byte
FetchedPrefix == SubSeq(bc, 1, ip)

\* C3: a fetched HALT ends execution at once with status 0: the step changes
\* neither stack, output nor input, no byte after the HALT is ever fetched,
\* and status, output and input consumed are those of the bytecode cut after
\* the HALT, whatever bytes follow it in bc.
C3_HaltStep ==
    /\ Fetched(255) =>
            pc' = "exit" /\ status' = 0 /\ UNCHANGED <<ip, stack, stdin, cout, fetched>>
    /\ pc = "exit" => fetched' = fetched

C3_Halt ==
    /\ [][C3_HaltStep]_vars
    /\ [](cmd = "run" /\ pc = "exit" /\ op = 255 =>
            /\ status = 0
            /\ bc[ip] = 255
            /\ fetched = Positions(ip)
            /\ Outcome(FetchedPrefix) = Result
            /\ Outcome(bc) = Result)

\* HALT has ended an execution that had written output, with bytes after
\* the HALT that are no opcode or would underflow
C3_Witness ==
    /\ cmd = "run" /\ pc = "exit" /\ op = 255 /\ status = 0
    /\ ip < Len(bc) /\ bc[ip + 1] \in {153, 3}
    /\ cout.vis # <<>>

\* C4: a fetched byte that is not 0x01, 0x02, 0x03 or 0xFF ends execution at
\* once with status 3: the step pushes and pops nothing, writes no output,
\* consumes no input, no later byte is fetched, and the outcome is that of
\* the bytecode cut after that byte, whatever bytes follow it in bc.
C4_UnknownStep ==
    /\ FetchedUnknown =>
            pc' = "exit" /\ status' = 3 /\ UNCHANGED <<ip, stack, stdin, cout, fetched>>
    /\ pc = "exit" => ip' = ip /\ fetched' = fetched

C4_Unknown ==
    /\ [][C4_UnknownStep]_vars
    /\ [](cmd = "run" /\ pc = "exit" /\ op \notin {NoOp, 1, 2, 3, 255} =>
            /\ status = 3
            /\ bc[ip] = op
            /\ fetched = Positions(ip)
            /\ Outcome(FetchedPrefix) = Result
            /\ Outcome(bc) = Result)

\* an unknown byte has ended an execution with a non-empty stack and bytes
\* left in the bytecode
C4_Witness ==
    /\ cmd = "run" /\ pc = "exit" /\ op = 153 /\ status = 3
    /\ stack # <<>> /\ ip < Len(bc)


\* all the bytes written to standard output so far
Written(o) == o.vis \o o.buf

\* C5: PRINT on a non-empty stack removes exactly the top element v, appends
\* exactly one byte equal to v mod 256 to the output, leaves the lower
\* elements unchanged and execution continues; PRINT on an empty stack ends
\* execution with status 2 and appends no byte.
C5_PrintStep ==
    /\ Fetched(2) /\ stack # <<>> =>
            /\ stack' = SubSeq(stack, 1, Len(stack) - 1)
            /\ Written(cout') = Written(cout) \o <<stack[Len(stack)] % 256>>
            /\ pc' = "loop" /\ status' = NoStatus
            /\ UNCHANGED <<ip, stdin>>
    /\ Fetched(2) /\ stack = <<>> =>
            /\ pc' = "exit" /\ status' = 2
            /\ UNCHANGED <<ip, stack, stdin, cout>>

C5_Print == [][C5_PrintStep]_vars

\* a PRINT has popped 200 off a stack of two elements and written it
C5_Witness ==
    /\ cmd = "run" /\ pc = "loop" /\ op = 2
    /\ Len(stack) = 1 /\ readVals = <<stack[1], 200>>
    /\ cout.vis = <<200>>

\* C6: ADD on a stack of at least two elements replaces the top two
\* elements a and b by (a + b) mod 256, leaving the elements below
\* unchanged; ADD on a stack of zero or one element ends execution with
\* status 2 without popping anything.
C6_AddStep ==
    /\ Fetched(3) /\ Len(stack) >= 2 =>
            /\ Len(stack') = Len(stack) - 1
            /\ stack'[Len(stack')] = (stack[Len(stack)] + stack[Len(stack) - 1]) % 256
            /\ SubSeq(stack', 1, Len(stack') - 1) = SubSeq(stack, 1, Len(stack) - 2)
            /\ pc' = "loop" /\ status' = NoStatus
            /\ UNCHANGED <<ip, stdin, cout>>
    /\ Fetched(3) /\ Len(stack) < 2 =>
            /\ pc' = "exit" /\ status' = 2
            /\ UNCHANGED <<ip, stack, stdin, cout>>

C6_Add == [][C6_AddStep]_vars

\* 200 and 100 have been read and added: 44 is on the stack
C6_Witness ==
    /\ cmd = "run" /\ pc = "loop" /\ op = 3
    /\ readVals = <<200, 100>> /\ stack = <<44>>


\* the value READ is to push for input in: 0 when the input is exhausted or
\* its first line is empty, else the first byte of the input
FirstByteOrZero(in) == IF in = <<>> \/ in[1] = 10 THEN 0 ELSE in[1]

\* C7: READ pushes exactly one value and never fails: 0 when the input is
\* exhausted or the line read is empty, else the value (0..255) of the first
\* character of the line; execution continues. A bytecode that starts with
\* READ PRINT writes that value as its first output byte.
C7_ReadStep ==
    Fetched(1) =>
        /\ stack' = Append(stack, FirstByteOrZero(stdin))
        /\ pc' = "loop" /\ status' = NoStatus
        /\ UNCHANGED <<ip, cout>>

C7_Read ==
    /\ [][C7_ReadStep]_vars
    /\ [](/\ cmd = "run" /\ Len(bc) >= 2 /\ bc[1] = 1 /\ bc[2] = 2
          /\ (ip > 2 \/ (ip = 2 /\ pc \in {"loop", "exit"}))
          => /\ cout.vis # <<>>
             /\ cout.vis[1] = FirstByteOrZero(input0)
             /\ cout.vis[1] \in 0..255)

\* READ PRINT on the input line "A" has written the byte 0x41 and ended
C7_Witness ==
    /\ cmd = "run" /\ pc = "exit" /\ status = 0
    /\ bc = <<1, 2>> /\ input0 = <<65, 10>> /\ cout.vis = <<65>>

\* The lines of an input, told by the positions of its newlines
NLs(in) == {k \in 1..Len(in) : in[k] = 10}
NthNL(in, n) == CHOOSE k \in NLs(in) : Cardinality({j \in NLs(in) : j <= k}) = n
\* the number of lines there are to read: every newline ends one, and so
\* does the end of an input that does not end with a newline
NumLines(in) ==
    Cardinality(NLs(in)) + (IF in # <<>> /\ in[Len(in)] # 10 THEN 1 ELSE 0)
\* where line n begins, and the position just after its last character
LineStart(in, n) ==
    IF n = 1 THEN 1
    ELSE IF n - 1 <= Cardinality(NLs(in)) THEN NthNL(in, n - 1) + 1
    ELSE Len(in) + 1
LineEnd(in, n) ==
    IF n <= Cardinality(NLs(in)) THEN NthNL(in, n) ELSE Len(in) + 1
LineOf(in, n) == SubSeq(in, LineStart(in, n), LineEnd(in, n) - 1)
\* the input left once n lines have been consumed
AfterLines(in, n) == SubSeq(in, LineStart(in, n + 1), Len(in))

Min(a, b) == IF a < b THEN a ELSE b

\* the number of input lines consumed so far
LinesConsumed == NumLines(input0) - NumLines(stdin)

\* C8 as stated: after n READs have executed, exactly n input lines have
\* been consumed.
C8_Original == cmd = "run" => LinesConsumed = Len(readVals)

\* C8, amended: each executed READ consumes exactly one line of input,
\* whatever its length, as long as there is a line left, and nothing once
\* the input is exhausted: after n READs, min(n, number of lines of the
\* input) lines have been consumed, the k-th READ pushes the first byte of
\* the k-th line (0 when that line is empty or there is no k-th line), and no
\* opcode other than READ consumes input.
C8_ReadLines ==
    /\ [](cmd = "run" =>
            /\ LinesConsumed = Min(Len(readVals), NumLines(input0))
            /\ stdin = AfterLines(input0, Len(readVals))
            /\ \A k \in 1..Len(readVals) :
                    readVals[k] = IF k <= NumLines(input0) /\ LineOf(input0, k) # <<>>
                                  THEN LineOf(input0, k)[1]
                                  ELSE 0)
    /\ [][/\ ~Fetched(1) => stdin' = stdin /\ readVals' = readVals
          /\ Fetched(1) => Len(readVals') = Len(readVals) + 1]_vars

\* two READs on an input of one line of two characters: the first has
\* consumed the whole line, the second has found the input exhausted
C8_Witness ==
    /\ cmd = "run" /\ Len(readVals) = 2 /\ stdin = <<>>
    /\ input0 = <<65, 200, 10>> /\ readVals = <<65, 0>>

\* C9: every byte written by a PRINT is flushed before the next opcode is
\* fetched: whenever a READ is about to block on input, and whenever
\* execution has ended, no written byte is left unflushed.
C9_Flushed == cmd = "run" => cout.buf = <<>>

\* a READ is about to block on input after a PRINT has written a byte
C9_Witness == Fetched(1) /\ cout.vis # <<>> /\ stdin # <<>>


----------------------------------------------------------------------------
(* Properties of assemble_lines *)

Whitespace(c) == c = " " \/ c = "\t" \/ c = "\r" \/ c = "\n"

\* line l is blank: empty or only whitespace
IsBlank(l) == \A k \in 1..Len(l) : Whitespace(l[k])

\* line l is a comment: its first character that is no whitespace is '#'
IsComment(l) ==
    \E k \in 1..Len(l) : l[k] = "#" /\ \A j \in 1..(k - 1) : Whitespace(l[j])

\* line l is the word w with whitespace around it
IsWord(l, w) ==
    \E p \in 0..(Len(l) - Len(w)) :
        /\ SubSeq(l, p + 1, p + Len(w)) = w
        /\ \A j \in 1..p : Whitespace(l[j])
        /\ \A j \in (p + Len(w) + 1)..Len(l) : Whitespace(l[j])

\* the mnemonic table as the specification gives it
IsMnemonicLine(l) ==
    \/ IsWord(l, <<"R", "E", "A", "D">>)
    \/ IsWord(l, <<"P", "R", "I", "N", "T">>)
    \/ IsWord(l, <<"A", "D", "D">>)
    \/ IsWord(l, <<"H", "A", "L", "T">>)

OpcodeOfLine(l) ==
    IF IsWord(l, <<"R", "E", "A", "D">>) THEN 1
    ELSE IF IsWord(l, <<"P", "R", "I", "N", "T">>) THEN 2
    ELSE IF IsWord(l, <<"A", "D", "D">>) THEN 3
    ELSE 255

\* the opcodes of the mnemonic lines of ls, in order
ExpectedCode(ls) ==
    LET ms == SelectSeq(ls, IsMnemonicLine) IN
    [k \in 1..Len(ms) |-> OpcodeOfLine(ms[k])]

AllLinesValid(ls) ==
    \A k \in 1..Len(ls) : IsBlank(ls[k]) \/ IsComment(ls[k]) \/ IsMnemonicLine(ls[k])

\* C10: when every line of the source is blank, a comment or a mnemonic,
\* assemble_lines succeeds and returns exactly the opcodes of the mnemonic
\* lines in input order: one byte per mnemonic line, none per skipped line.
C10_Assemble ==
    cmd = "assemble" /\ AllLinesValid(src) =>
        /\ pc # "catch" /\ err = NoErr /\ status \in {NoStatus, 0}
        /\ pc = "asm" => code = ExpectedCode(SubSeq(src, 1, i))
        /\ pc \in {"write", "exit"} =>
                /\ code = ExpectedCode(src)
                /\ Len(code) = Cardinality({k \in 1..Len(src) : IsMnemonicLine(src[k])})

\* assemble_lines has returned 0x01 0x02 0x03 0xFF for READ, PRINT, ADD, HALT
C10_Witness ==
    /\ cmd = "assemble" /\ pc = "write"
    /\ src = << <<"R", "E", "A", "D">>, <<"P", "R", "I", "N", "T">>,
                <<"A", "D", "D">>, <<"H", "A", "L", "T">> >>
    /\ code = <<1, 2, 3, 255>>


\* ls with line s inserted after its first p lines, and ls without line p
InsertAt(ls, p, s) == SubSeq(ls, 1, p) \o <<s>> \o SubSeq(ls, p + 1, Len(ls))
RemoveAt(ls, p) == SubSeq(ls, 1, p - 1) \o SubSeq(ls, p + 1, Len(ls))

IsSkipped(l) == IsBlank(l) \/ IsComment(l)
IsKept(l) == ~IsSkipped(l)

\* blank lines and comment lines to insert
SkippedLines ==
    { <<>>, <<" ">>, <<"\t", "\r">>, <<"\n">>, <<"#">>, <<" ", "\t", "#", "H", "A", "L", "T">> }

\* C11: for a source whose other lines are valid mnemonics, inserting a
\* blank or comment line at any position, removing any one of them, or
\* removing all of them, does not change the bytes assemble_lines produces.
C11_SkippedLines ==
    cmd = "assemble" /\ pc = "write" /\ AllLinesValid(src) =>
        /\ \A p \in 0..Len(src) : \A s \in SkippedLines :
                AssembleLines(InsertAt(src, p, s)) = [ok |-> TRUE, code |-> code, err |-> NoErr]
        /\ \A p \in 1..Len(src) :
                IsSkipped(src[p]) =>
                    AssembleLines(RemoveAt(src, p)) = [ok |-> TRUE, code |-> code, err |-> NoErr]
        /\ AssembleLines(SelectSeq(src, IsKept)) = [ok |-> TRUE, code |-> code, err |-> NoErr]

\* a source with a blank line and a comment line among two mnemonics has
\* been assembled
C11_Witness ==
    /\ cmd = "assemble" /\ pc = "write" /\ Len(src) = 4 /\ Len(code) = 2
    /\ \E p, q \in 1..4 : IsBlank(src[p]) /\ IsComment(src[q])


\* line l is neither blank, nor a comment, nor a mnemonic
IsInvalid(l) == ~IsBlank(l) /\ ~IsComment(l) /\ ~IsMnemonicLine(l)

HasInvalid(ls) == \E k \in 1..Len(ls) : IsInvalid(ls[k])

\* the 1-based position of the first invalid line of ls
FirstInvalid(ls) ==
    CHOOSE k \in 1..Len(ls) : IsInvalid(ls[k]) /\ \A j \in 1..(k - 1) : ~IsInvalid(ls[j])

\* the text of a line that is not blank, without the whitespace around it
TextOf(l) ==
    LET ends == CHOOSE e \in (1..Len(l)) \X (1..Len(l)) :
                    /\ ~Whitespace(l[e[1]]) /\ ~Whitespace(l[e[2]])
                    /\ \A j \in 1..(e[1] - 1) : Whitespace(l[j])
                    /\ \A j \in (e[2] + 1)..Len(l) : Whitespace(l[j])
    IN [k \in 1..(ends[2] - ends[1] + 1) |-> l[ends[1] + k - 1]]

\* C12: when some line is invalid, assemble_lines fails and returns no
\* bytecode; the error gives the 1-based position in the full input of the
\* first invalid line and its trimmed text; no line after it is processed.
C12_FailFast ==
    /\ [](cmd = "assemble" /\ HasInvalid(src) =>
            /\ pc # "write" /\ status \in {NoStatus, 1}
            /\ i < FirstInvalid(src)
            /\ pc = "asm" => err = NoErr
            /\ pc \in {"catch", "exit"} =>
                    /\ err = [line |-> FirstInvalid(src),
                              text |-> TextOf(src[FirstInvalid(src)])]
                    /\ code = <<>>
                    /\ i = FirstInvalid(src) - 1)
    /\ [][cmd = "assemble" /\ pc = "asm" /\ HasInvalid(src) /\ i = FirstInvalid(src) - 1
            => pc' = "catch"]_vars

\* assembly has failed on line 3, after a skipped line and before another
\* invalid line
C12_Witness ==
    /\ cmd = "assemble" /\ pc = "exit" /\ status = 1
    /\ Len(src) = 4 /\ IsSkipped(src[1]) /\ IsMnemonicLine(src[2])
    /\ IsInvalid(src[3]) /\ IsInvalid(src[4]) /\ src[3] # src[4]
    /\ err.line = 3


----------------------------------------------------------------------------
(* Properties of the assembler and the interpreter together *)

\* the mnemonic of the k-th mnemonic line of the source
MnemonicAt(k) ==
    LET l == SelectSeq(src, IsMnemonicLine)[k] IN
    IF IsWord(l, <<"R", "E", "A", "D">>) THEN "READ"
    ELSE IF IsWord(l, <<"P", "R", "I", "N", "T">>) THEN "PRINT"
    ELSE IF IsWord(l, <<"A", "D", "D">>) THEN "ADD"
    ELSE "HALT"

\* what a step does when it performs the operation named
Performs(name) ==
    CASE name = "READ" ->
            /\ stack' = Append(stack, FirstByteOrZero(stdin))
            /\ Len(readVals') = Len(readVals) + 1
            /\ pc' = "loop" /\ cout' = cout
      [] name = "PRINT" ->
            IF stack = <<>>
            THEN pc' = "exit" /\ status' = 2 /\ cout' = cout
            ELSE /\ Written(cout') = Written(cout) \o <<stack[Len(stack)] % 256>>
                 /\ stack' = SubSeq(stack, 1, Len(stack) - 1)
                 /\ pc' = "loop" /\ stdin' = stdin
      [] name = "ADD" ->
            IF Len(stack) < 2
            THEN pc' = "exit" /\ status' = 2 /\ stack' = stack
            ELSE /\ stack' = Append(SubSeq(stack, 1, Len(stack) - 2),
                                    (stack[Len(stack)] + stack[Len(stack) - 1]) % 256)
                 /\ pc' = "loop" /\ cout' = cout /\ stdin' = stdin
      [] name = "HALT" ->
            pc' = "exit" /\ status' = 0 /\ UNCHANGED <<stack, cout, stdin>>

\* the file that is run is the one assemble_lines produced from src
RunsAssembled == cmd = "run" /\ lines = src /\ tbc = code

\* C13: for every source assemble_lines accepts, the i-th byte written makes
\* run_bytecode perform the operation named by the i-th mnemonic line, so
\* the run of an assembled file never ends with status 3, for any input.
C13_Agree ==
    /\ [](RunsAssembled =>
            /\ tbc = ExpectedCode(src)
            /\ status # 3
            /\ pc = "dispatch" => op \in {1, 2, 3, 255})
    /\ [][RunsAssembled /\ pc = "dispatch" => Performs(MnemonicAt(ip))]_vars

\* the file assembled from READ, a comment and PRINT has been run on an
\* input and has written that input's first byte
C13_Witness ==
    /\ RunsAssembled /\ pc = "exit" /\ status = 0
    /\ Len(src) = 3 /\ IsComment(src[2]) /\ bc = <<1, 2>>
    /\ input0 # <<>> /\ cout.vis = <<input0[1]>>


----------------------------------------------------------------------------
(* Properties of the assemble command *)

\* the output file: whether it is there, and its bytes
OutFile == <<outExists, tbc>>

\* the command cannot succeed: wrong arguments, a source file that does not
\* open, or a line that does not assemble
MustFail == env.argc # 4 \/ ~env.canRead \/ HasInvalid(src)

\* C14: the assemble command writes the output file only after the whole
\* source has been assembled: with wrong arguments, a source file that
\* cannot be opened or a line that fails, it exits 1 and the output file is
\* neither created, truncated nor written; when it exits 0 the output file
\* holds exactly the assembled bytes.
C14_WriteStep ==
    cmd = "assemble" /\ OutFile' # OutFile =>
        /\ ~MustFail
        /\ pc = "write" /\ pc' = "exit" /\ status' = 0
        /\ OutFile' = <<TRUE, ExpectedCode(src)>>

C14_Atomic ==
    /\ [][C14_WriteStep]_vars
    /\ [](cmd = "assemble" /\ pc = "exit" =>
            /\ status \in {0, 1}
            /\ MustFail => status = 1
            /\ status = 0 => OutFile = <<TRUE, ExpectedCode(src)>> /\ tbc = code)
    /\ [](cmd = "assemble" /\ pc # "exit" => status = NoStatus)

\* assembly has failed on the third line of a source, and a bytecode file
\* that was there before is still there
C14_Witness ==
    /\ cmd = "assemble" /\ pc = "exit" /\ status = 1
    /\ err.line = 3 /\ env.canWrite
    /\ OutFile = <<TRUE, <<1, 2>> >>


----------------------------------------------------------------------------
(* Invariants of run_bytecode *)

\* C15: in every reachable state of run_bytecode, for every bytecode and
\* every input, each element of the stack is an integer in 0..255.
C15_StackBytes ==
    cmd = "run" => \A k \in 1..Len(stack) : stack[k] \in 0..255

\* 200 and 200 have been read and added: the sum 400 is on the stack as 144
C15_Witness ==
    /\ cmd = "run" /\ pc = "loop" /\ op = 3
    /\ readVals = <<200, 200>> /\ stack = <<144>>

\* C16: ip starts at 0, is increased by exactly one at each fetch, before
\* the effect of the fetched opcode, and is changed by nothing else; always
\* 0 <= ip <= length of the bytecode; a byte is fetched only at an index
\* below the length, and the positions fetched are 0, 1, 2, ... in order,
\* each once.
C16_IpStep ==
    cmd = "run" =>
        /\ pc = "main" => ip' = 0
        /\ pc = "loop" /\ pc' = "dispatch" =>
                /\ ip < Len(bc) /\ ip' = ip + 1 /\ op' = bc[ip + 1]
                /\ fetched' = Append(fetched, ip)
                /\ UNCHANGED <<stack, stdin, cout>>
        /\ ~(pc = "loop" /\ pc' = "dispatch") => fetched' = fetched
        /\ ip' # ip => pc = "loop" /\ pc' = "dispatch"
        /\ pc = "loop" => pc' \in {"dispatch", "exit"}

C16_Ip ==
    /\ [](cmd = "run" =>
            /\ ip \in 0..Len(bc)
            /\ fetched = Positions(ip)
            /\ \A k \in 1..Len(fetched) : fetched[k] < Len(bc)
            /\ \A j, k \in 1..Len(fetched) : j < k => fetched[j] < fetched[k]
            /\ pc = "dispatch" => ip >= 1 /\ op = bc[ip])
    /\ [][C16_IpStep]_vars

\* a bytecode of four bytes has been fetched to its end
C16_Witness ==
    /\ cmd = "run" /\ pc = "exit" /\ Len(bc) = 4 /\ ip = 4
    /\ fetched = <<0, 1, 2, 3>> /\ op = 2


----------------------------------------------------------------------------
(* The lookup of a mnemonic *)

Names ==
    { <<"R", "E", "A", "D">>, <<"P", "R", "I", "N", "T">>,
      <<"A", "D", "D">>, <<"H", "A", "L", "T">> }

LowerCase == <<"a", "d", "e", "h", "i", "l", "n", "p", "r", "t">>
UpperCase == <<"A", "D", "E", "H", "I", "L", "N", "P", "R", "T">>

ToUpper(c) ==
    IF \E k \in 1..Len(LowerCase) : LowerCase[k] = c
    THEN UpperCase[CHOOSE k \in 1..Len(LowerCase) : LowerCase[k] = c]
    ELSE c

\* line l is a mnemonic written in another case, as "read"
WrongCase(l) ==
    /\ ~IsBlank(l)
    /\ TextOf(l) \notin Names
    /\ [k \in 1..Len(TextOf(l)) |-> ToUpper(TextOf(l)[k])] \in Names

\* line l is a mnemonic followed by a comment, as "READ # x"
WithInlineComment(l) ==
    /\ ~IsBlank(l)
    /\ LET t == TextOf(l) IN
        \E w \in Names : \E k \in (Len(w) + 1)..Len(t) :
            /\ SubSeq(t, 1, Len(w)) = w
            /\ t[k] = "#"
            /\ \A j \in (Len(w) + 1)..(k - 1) : Whitespace(t[j])

\* line l is two mnemonics, as "READ PRINT"
TwoMnemonics(l) ==
    /\ ~IsBlank(l)
    /\ LET t == TextOf(l) IN
        \E w1, w2 \in Names :
            /\ Len(t) > Len(w1) + Len(w2)
            /\ SubSeq(t, 1, Len(w1)) = w1
            /\ SubSeq(t, Len(t) - Len(w2) + 1, Len(t)) = w2
            /\ \A j \in (Len(w1) + 1)..(Len(t) - Len(w2)) : Whitespace(t[j])

C17_LookupStep ==
    cmd = "assemble" /\ pc = "asm" /\ i < Len(lines) =>
        LET l == lines[i + 1] IN
        /\ WrongCase(l) \/ WithInlineComment(l) \/ TwoMnemonics(l) =>
                /\ pc' = "catch"
                /\ err' = [line |-> i + 1, text |-> TextOf(l)]
                /\ code' = <<>>
        /\ Len(code') > Len(code) => ~IsBlank(l) /\ TextOf(l) \in Names
        /\ pc' = "asm" /\ code' = code => IsBlank(l) \/ IsComment(l)

\* C17: the lookup takes the whole trimmed line, case-sensitively, and
\* never splits it: a mnemonic in another case, a mnemonic followed by a
\* comment and two mnemonics on one line each make assemble_lines fail on
\* that line and emit nothing; a line is a comment only when its first
\* character that is no whitespace is '#'.
C17_Lookup == [][C17_LookupStep]_vars

\* "READ #" on line 3, after a comment and a READ, has made the assembly fail
C17_Witness ==
    /\ cmd = "assemble" /\ pc = "exit" /\ status = 1
    /\ IsComment(src[1]) /\ src[2] = <<"R", "E", "A", "D">>
    /\ WithInlineComment(src[3])
    /\ err = [line |-> 3, text |-> <<"R", "E", "A", "D", " ", "#">>]


----------------------------------------------------------------------------
(* Termination of run_bytecode *)

C18_LoopStep ==
    cmd = "run" /\ pc = "loop" => pc' = "exit" \/ ip' = ip + 1

\* C18: run_bytecode terminates for every bytecode and every input, after
\* at most as many fetches as the bytecode has bytes: each iteration of
\* the loop either ends the execution or increases ip.
C18_Terminates ==
    /\ (cmd = "run") ~> (pc = "exit" /\ status \in {0, 2, 3})
    /\ [](Len(fetched) <= Len(bc))
    /\ [][C18_LoopStep]_vars

\* three READs on an empty input have run to the end of the bytecode
C18_Witness ==
    /\ cmd = "run" /\ pc = "exit" /\ status = 0
    /\ input0 = <<>> /\ Len(bc) = 3 /\ Len(fetched) = 3
    /\ readVals = <<0, 0, 0>>


----------------------------------------------------------------------------
(* Accounting of the stack and of the output *)

\* the number of fetched opcodes whose case of the switch has run
Applied == IF pc = "dispatch" THEN Len(fetched) - 1 ELSE Len(fetched)

\* the number of opcodes o executed so far
Executed(o) == Cardinality({k \in 1..Applied : bc[fetched[k] + 1] = o})

\* the number of opcodes o that ended the execution by an underflow
Underflowed(o) == IF pc = "exit" /\ status = 2 /\ op = o THEN 1 ELSE 0

Succeeded(o) == Executed(o) - Underflowed(o)

\* C19: the size of the stack is the number of READs executed, minus the
\* number of PRINTs executed without underflow, minus the number of ADDs
\* executed without underflow; it is never negative, at most the number of
\* READs executed and at most ip.
C19_StackSize ==
    cmd = "run" =>
        /\ Len(stack) = Executed(1) - Succeeded(2) - Succeeded(3)
        /\ Executed(1) = Len(readVals)
        /\ Len(stack) >= 0
        /\ Len(stack) <= Executed(1)
        /\ Len(stack) <= ip

\* READ READ ADD ADD: the second ADD finds one element and underflows
C19_Witness ==
    /\ cmd = "run" /\ pc = "exit" /\ status = 2
    /\ bc = <<1, 1, 3, 3>> /\ Len(stack) = 1 /\ ip = 4

C20_OutputStep ==
    cmd = "run" =>
        /\ Written(cout') # Written(cout) =>
                /\ pc = "dispatch" /\ op = 2 /\ stack # <<>>
                /\ Len(Written(cout')) = Len(Written(cout)) + 1
                /\ SubSeq(Written(cout'), 1, Len(Written(cout))) = Written(cout)
        /\ pc = "dispatch" /\ op = 2 /\ stack # <<>> =>
                Len(Written(cout')) = Len(Written(cout)) + 1
        /\ pc = "dispatch" /\ op = 3 /\ Len(stack) < 2 =>
                /\ pc' = "exit" /\ status' = 2
                /\ Written(cout') = Written(cout)

\* C20: the output changes only when a PRINT finds an element on the
\* stack, and then by one byte appended; every other operation leaves it
\* as it is, an ADD that underflows included (status 2, no output); bytes
\* written are never altered or taken back; the output has as many bytes
\* as PRINTs were executed without underflow.
C20_Output ==
    /\ [][C20_OutputStep]_vars
    /\ [](cmd = "run" => Len(Written(cout)) = Succeeded(2))

\* READ PRINT ADD: one byte is out when the ADD underflows on the empty stack
C20_Witness ==
    /\ cmd = "run" /\ pc = "exit" /\ status = 2 /\ op = 3
    /\ bc = <<1, 2, 3>> /\ stack = <<>> /\ Written(cout) = <<65>>

====
